---- MODULE Spec2Model ----
(***************************************************************************)
(* jupyter-server-proxy: the per-service handler factory and route table   *)
(* of config.py, and the standalone proxy of standalone/proxy.py and       *)
(* standalone/hub.py (request authentication gate, route construction,     *)
(* base_url trait, TLS setup).                                             *)
(*                                                                         *)
(* Strings are sequences of tokens.  Configuration values are records of   *)
(* one shape, tagged by their Python type in the field t.                  *)
(***************************************************************************)
EXTENDS Integers, Sequences, FiniteSets, TLC

VARIABLES
    \* config.py: one configured service and the rendering of its templates
    server_process,     \* ServerProcess(name, command, environment)
    port,               \* self.port, the port assigned to the backend
    cmd_out,            \* what get_cmd() returned or raised
    env_out,            \* what get_env() returned or raised
    \* TLS setup: hub.configure_ssl and StandaloneProxyServer._configure_ssl
    ssl_environ,        \* os.environ, the three JUPYTERHUB_SSL_* variables
    ssl_out,            \* per implementation: what the call did and returned
    http_client,        \* per implementation: AsyncHTTPClient's configured defaults
    http_server,        \* the ssl_options the HTTPServer of start() was given
    \* route tables: StandaloneProxyServer._create_app and make_handlers
    app,                \* which application, how far it is set up, what it was given
    base_url,           \* the base_url the routes are built from
    handlers,           \* the route table
    response,           \* the last request dispatched and what answered it
    \* requests to the proxy handler of one application
    settings,           \* the handler class of the proxy route and skip_authentication
    requests,           \* per request: where it is in the handler and what it has done
    state,              \* the state dicts handlers were initialized with
    procs,              \* every backend process spawned so far
    resolved            \* the services whose first start has resolved

varsT == <<server_process, port, cmd_out, env_out>>
varsS == <<ssl_environ, ssl_out, http_client, http_server>>
varsR == <<app, base_url, handlers, response>>
varsP == <<settings, requests, state, procs, resolved>>

vars == <<server_process, port, cmd_out, env_out,
          ssl_environ, ssl_out, http_client, http_server,
          app, base_url, handlers, response,
          settings, requests, state, procs, resolved>>

----------------------------------------------------------------------------
(* Bounds of the model *)

\* longest template string (in tokens) given as a whole command/environment
MaxStrLen == 4
\* most elements of a list template
MaxItems == 2
\* most entries of a mapping template
MaxEntries == 1
\* how many times a list or mapping is wrapped in another one
MaxDepth == 1
\* longest base URL or service prefix variable (in characters)
MaxPathLen == 4
\* longest service name (in characters)
MaxNameLen == 2
\* how many requests arrive
MaxRequests == 2

----------------------------------------------------------------------------
(* Python values *)

StrV(s) == [t |-> "str", s |-> s, items |-> <<>>, keys |-> <<>>, id |-> ""]
ListV(xs) == [t |-> "list", s |-> <<>>, items |-> xs, keys |-> <<>>, id |-> ""]
DictV(ks, vs) == [t |-> "dict", s |-> <<>>, items |-> vs, keys |-> ks, id |-> ""]
IntV == [t |-> "int", s |-> <<>>, items |-> <<>>, keys |-> <<>>, id |-> ""]
NoneV == [t |-> "none", s |-> <<>>, items |-> <<>>, keys |-> <<>>, id |-> ""]
FnV(f) == [t |-> "fn", s |-> <<>>, items |-> <<>>, keys |-> <<>>, id |-> f]
\* a raised exception, by its kind
ErrV(kind) == [t |-> "err", s |-> <<>>, items |-> <<>>, keys |-> <<>>, id |-> kind]
\* the method has not been called yet
NotRun == [t |-> "notrun", s |-> <<>>, items |-> <<>>, keys |-> <<>>, id |-> ""]

IsErr(v) == v.t = "err"

ErrUnrecognized == ErrV("ValueError: Value of unrecognized type")
ErrKey == ErrV("KeyError")
ErrIndex == ErrV("IndexError")
ErrFormat == ErrV("ValueError: format string")
ErrType == ErrV("TypeError")

\* the tokens template strings are made of: the braces, the word port, other text
Tok == {"{", "}", "port", "a"}

DigitTok == <<"0", "1", "2", "3", "4", "5", "6", "7", "8", "9">>

\* str(n) of a non-negative integer: its decimal digits
RECURSIVE Dec(_)
Dec(n) ==
    IF n < 10 THEN <<DigitTok[n + 1]>>
    ELSE Dec(n \div 10) \o <<DigitTok[(n % 10) + 1]>>

----------------------------------------------------------------------------
(* str.format with keyword arguments, as _render_template uses it *)

\* the first brace after position i of s, or 0
NextBrace(s, i) ==
    LET js == {j \in (i + 1)..Len(s) : s[j] \in {"{", "}"}}
    IN  IF js = {} THEN 0 ELSE CHOOSE j \in js : \A k \in js : j <= k

\* the text a replacement field named name stands for
Field(name, args) ==
    IF name = <<>> THEN ErrIndex
    ELSE IF Len(name) = 1 /\ name[1] \in DOMAIN args THEN StrV(Dec(args[name[1]]))
    ELSE ErrKey

RECURSIVE FormatFrom(_, _, _)
FormatFrom(s, i, args) ==
    IF i > Len(s) THEN StrV(<<>>)
    ELSE IF s[i] = "{" THEN
        IF i = Len(s) THEN ErrFormat
        ELSE IF s[i + 1] = "{" THEN
            LET rest == FormatFrom(s, i + 2, args)
            IN  IF IsErr(rest) THEN rest ELSE StrV(<<"{">> \o rest.s)
        ELSE
            LET j == NextBrace(s, i)
            IN  IF j = 0 \/ s[j] = "{" THEN ErrFormat
                ELSE LET f == Field(SubSeq(s, i + 1, j - 1), args)
                         rest == FormatFrom(s, j + 1, args)
                     IN  IF IsErr(f) THEN f
                         ELSE IF IsErr(rest) THEN rest
                         ELSE StrV(f.s \o rest.s)
    ELSE IF s[i] = "}" THEN
        IF i < Len(s) /\ s[i + 1] = "}" THEN
            LET rest == FormatFrom(s, i + 2, args)
            IN  IF IsErr(rest) THEN rest ELSE StrV(<<"}">> \o rest.s)
        ELSE ErrFormat
    ELSE
        LET rest == FormatFrom(s, i + 1, args)
        IN  IF IsErr(rest) THEN rest ELSE StrV(<<s[i]>> \o rest.s)

Format(s, args) == FormatFrom(s, 1, args)

----------------------------------------------------------------------------
(* _make_serverproxy_handler: _Proxy *)

\* _Proxy.process_args
process_args(p) == [port |-> p]

\* the first exception of a sequence of results, or NotRun when there is none
FirstErr(rs) ==
    LET bad == {i \in 1..Len(rs) : IsErr(rs[i])}
    IN  IF bad = {} THEN NotRun
        ELSE rs[CHOOSE i \in bad : \A k \in bad : i <= k]

\* d[k] = v on a dict held as parallel key and value sequences
DictSet(ks, vs, k, v) ==
    IF \E i \in 1..Len(ks) : ks[i] = k
    THEN LET i == CHOOSE i \in 1..Len(ks) : ks[i] = k
         IN  DictV(ks, [vs EXCEPT ![i] = v])
    ELSE DictV(Append(ks, k), Append(vs, v))

\* the dict a comprehension builds from rendered keys rk and rendered values rv
RECURSIVE DictOf(_, _, _)
DictOf(rk, rv, n) ==
    IF n = 0 THEN DictV(<<>>, <<>>)
    ELSE LET d == DictOf(rk, rv, n - 1)
         IN  DictSet(d.keys, d.items, rk[n], rv[n])

\* _Proxy._render_template with a pass-through for other types
RECURSIVE RenderTemplatePassThrough(_, _)
RenderTemplatePassThrough(value, args) ==
    IF value.t = "str" THEN Format(value.s, args)
    ELSE IF value.t = "list" THEN
        LET rs == [i \in 1..Len(value.items) |->
                      RenderTemplatePassThrough(value.items[i], args)]
        IN  IF FirstErr(rs) # NotRun THEN FirstErr(rs) ELSE ListV(rs)
    ELSE IF value.t = "dict" THEN
        LET n == Len(value.keys)
            rk == [i \in 1..n |-> RenderTemplatePassThrough(value.keys[i], args)]
            rv == [i \in 1..n |-> RenderTemplatePassThrough(value.items[i], args)]
            order == [i \in 1..(2 * n) |->
                         IF i % 2 = 1 THEN rk[(i + 1) \div 2] ELSE rv[i \div 2]]
        IN  IF FirstErr(order) # NotRun THEN FirstErr(order) ELSE DictOf(rk, rv, n)
    ELSE value

\* _Proxy._render_template
RECURSIVE RenderTemplate(_, _)
RenderTemplate(value, args) ==
    IF value.t = "str" THEN Format(value.s, args)
    ELSE IF value.t = "list" THEN
        LET rs == [i \in 1..Len(value.items) |-> RenderTemplate(value.items[i], args)]
        IN  IF FirstErr(rs) # NotRun THEN FirstErr(rs) ELSE ListV(rs)
    ELSE IF value.t = "dict" THEN
        LET n == Len(value.keys)
            rk == [i \in 1..n |-> RenderTemplate(value.keys[i], args)]
            rv == [i \in 1..n |-> RenderTemplate(value.items[i], args)]
            \* each key is rendered before its value, entry by entry
            order == [i \in 1..(2 * n) |->
                         IF i % 2 = 1 THEN rk[(i + 1) \div 2] ELSE rv[i \div 2]]
        IN  IF FirstErr(order) # NotRun THEN FirstErr(order) ELSE DictOf(rk, rv, n)
    ELSE ErrUnrecognized

\* the configured callables: each takes the parameters FnParams and returns FnBody
FnIds == {"f_list", "f_tmpl", "f_env", "f_fn", "f_p"}

FnParams(f) == IF f = "f_p" THEN {"p"} ELSE {"port"}

FnBody(f, args) ==
    CASE f = "f_list" -> ListV(<<StrV(<<"a">>), StrV(Dec(args.port))>>)
      [] f = "f_tmpl" -> ListV(<<StrV(<<"a", "{", "port", "}">>)>>)
      [] f = "f_env"  -> DictV(<<StrV(<<"PORT">>)>>, <<StrV(Dec(args.port))>>)
      [] f = "f_fn"   -> FnV("f_list")
      [] OTHER        -> ListV(<<StrV(<<"a">>)>>)

\* calling value with keyword arguments args
Call(value, args) ==
    IF DOMAIN args = FnParams(value.id) THEN FnBody(value.id, args) ELSE ErrType

callable(value) == value.t = "fn"

\* get_cmd that never calls the command
get_cmd_uncalled(command, p) == RenderTemplate(command, process_args(p))

\* _Proxy.get_cmd
get_cmd(command, p) ==
    IF callable(command)
    THEN LET r == Call(command, process_args(p))
         IN  IF IsErr(r) THEN r ELSE RenderTemplate(r, process_args(p))
    ELSE RenderTemplate(command, process_args(p))

\* _Proxy.get_env
get_env(environment, p) ==
    IF callable(environment)
    THEN LET r == Call(environment, process_args(p))
         IN  IF IsErr(r) THEN r ELSE RenderTemplate(r, process_args(p))
    ELSE RenderTemplate(environment, process_args(p))

\* server_process_config.get(key, default)
Get(config, key, default) == IF key \in DOMAIN config THEN config[key] ELSE default

\* make_server_process (the launcher entry plays no part in rendering)
make_server_process(name, server_process_config) ==
    [name |-> name,
     command |-> server_process_config["command"],
     environment |-> Get(server_process_config, "environment", DictV(<<>>, <<>>))]

----------------------------------------------------------------------------
(* TLS setup: hub.configure_ssl and StandaloneProxyServer._configure_ssl *)

SSLVars == {"JUPYTERHUB_SSL_KEYFILE", "JUPYTERHUB_SSL_CERTFILE", "JUPYTERHUB_SSL_CLIENT_CA"}

\* a variable that is not in os.environ
Unset == "<unset>"
\* Python's None
PyNone == "<None>"

\* os.environ.get(name, default)
EnvironGet(environ, name, default) ==
    IF environ[name] = Unset THEN default ELSE environ[name]

\* the truth value of a string or None
Truthy(v) == v # PyNone /\ v # ""

\* what a TLS setup returns or hands on: None, the SSL context made from the
\* three files, or the ssl_options dict with the keys it holds
NoSSL == [kind |-> "None", keyfile |-> PyNone, certfile |-> PyNone, cafile |-> PyNone,
          keys |-> {}]

\* make_ssl_context(keyfile, certfile, cafile), as called
make_ssl_context(keyfile, certfile, cafile) ==
    [kind |-> "ssl_context", keyfile |-> keyfile, certfile |-> certfile,
     cafile |-> cafile, keys |-> {}]

\* AsyncHTTPClient before any configure() call
Unconfigured == [kind |-> "unconfigured", keyfile |-> PyNone, certfile |-> PyNone,
                 cafile |-> PyNone, keys |-> {}]

\* the call has not been made
SSLNotRun == [ran |-> FALSE, warned |-> FALSE, built |-> FALSE, ret |-> NoSSL,
              client |-> Unconfigured]

\* the call warned "Could not configure SSL" and returned None
SSLDisabled(client) ==
    [ran |-> TRUE, warned |-> TRUE, built |-> FALSE, ret |-> NoSSL, client |-> client]

\* hub.configure_ssl: the outcome, and the HTTP client's defaults after it
configure_ssl(environ, client) ==
    LET keyfile == EnvironGet(environ, "JUPYTERHUB_SSL_KEYFILE", PyNone)
        certfile == EnvironGet(environ, "JUPYTERHUB_SSL_CERTFILE", PyNone)
        cafile == EnvironGet(environ, "JUPYTERHUB_SSL_CLIENT_CA", PyNone)
    IN  IF ~(Truthy(keyfile) /\ Truthy(certfile) /\ Truthy(cafile))
        THEN SSLDisabled(client)
        ELSE LET ssl_context == make_ssl_context(keyfile, certfile, cafile)
             IN  [ran |-> TRUE, warned |-> FALSE, built |-> TRUE, ret |-> ssl_context,
                  client |-> ssl_context]

\* the ssl_options dict _configure_ssl fills
SSLOptions(keyfile, certfile, client_ca) ==
    [kind |-> "ssl_options", keyfile |-> keyfile, certfile |-> certfile,
     cafile |-> client_ca,
     keys |-> {"ssl_version"}
                \cup (IF Truthy(keyfile) THEN {"keyfile"} ELSE {})
                \cup (IF Truthy(certfile) THEN {"certfile"} ELSE {})
                \cup (IF Truthy(client_ca) THEN {"ca_certs", "cert_reqs"} ELSE {})]

\* _configure_ssl that warns and goes on
_configure_ssl_no_return(environ, client) ==
    LET keyfile == EnvironGet(environ, "JUPYTERHUB_SSL_KEYFILE", "")
        certfile == EnvironGet(environ, "JUPYTERHUB_SSL_CERTFILE", "")
        client_ca == EnvironGet(environ, "JUPYTERHUB_SSL_CLIENT_CA", "")
        ssl_context == make_ssl_context(keyfile, certfile, client_ca)
    IN  [ran |-> TRUE, warned |-> ~(Truthy(keyfile) \/ Truthy(certfile) \/ Truthy(client_ca)),
         built |-> TRUE, ret |-> SSLOptions(keyfile, certfile, client_ca),
         client |-> ssl_context]

\* StandaloneProxyServer._configure_ssl: the outcome, and the HTTP client's
\* defaults after it
_configure_ssl(environ, client) ==
    LET keyfile == EnvironGet(environ, "JUPYTERHUB_SSL_KEYFILE", "")
        certfile == EnvironGet(environ, "JUPYTERHUB_SSL_CERTFILE", "")
        client_ca == EnvironGet(environ, "JUPYTERHUB_SSL_CLIENT_CA", "")
    IN  IF ~(Truthy(keyfile) \/ Truthy(certfile) \/ Truthy(client_ca))
        THEN SSLDisabled(client)
        ELSE LET ssl_context == make_ssl_context(keyfile, certfile, client_ca)
             IN  [ran |-> TRUE, warned |-> FALSE, built |-> TRUE,
                  ret |-> SSLOptions(keyfile, certfile, client_ca),
                  client |-> ssl_context]

SSLImpls == {"hub", "standalone"}

\* the values a JUPYTERHUB_SSL_* variable is given
SSLFiles == {Unset, "", "/etc/ssl/file.pem"}

\* the HTTPServer has not been created
NotListening == [kind |-> "not listening", keyfile |-> PyNone, certfile |-> PyNone,
                 cafile |-> PyNone, keys |-> {}]

----------------------------------------------------------------------------
(* Route tables *)

\* the characters URLs are made of here; "-" and "." are special in a regex
PathChars == {"/", "a", "-", "."}

\* re.escape: the characters it puts a backslash before
SpecialChars == {"-", "."}

RECURSIVE re_escape(_)
re_escape(s) ==
    IF s = <<>> THEN <<>>
    ELSE (IF Head(s) \in SpecialChars THEN <<"\\", Head(s)>> ELSE <<Head(s)>>)
             \o re_escape(Tail(s))

\* str.removesuffix("/")
RemoveSlash(s) ==
    IF s # <<>> /\ s[Len(s)] = "/" THEN SubSeq(s, 1, Len(s) - 1) ELSE s

\* str.strip("/")
RECURSIVE Strip(_)
Strip(s) ==
    IF s = <<>> THEN s
    ELSE IF Head(s) = "/" THEN Strip(Tail(s))
    ELSE IF s[Len(s)] = "/" THEN Strip(SubSeq(s, 1, Len(s) - 1))
    ELSE s

RECURSIVE JoinSlash(_)
JoinSlash(ps) ==
    IF ps = <<>> THEN <<>>
    ELSE IF Len(ps) = 1 THEN ps[1]
    ELSE ps[1] \o <<"/">> \o JoinSlash(Tail(ps))

\* notebook.utils.url_path_join
ujoin(pieces) ==
    LET initial == pieces[1] # <<>> /\ Head(pieces[1]) = "/"
        last == pieces[Len(pieces)]
        final == last # <<>> /\ last[Len(last)] = "/"
        stripped == [i \in 1..Len(pieces) |-> Strip(pieces[i])]
        joined == JoinSlash(SelectSeq(stripped, LAMBDA q : q # <<>>))
        a == IF initial THEN <<"/">> \o joined ELSE joined
        b == IF final THEN a \o <<"/">> ELSE a
    IN  IF b = <<"/", "/">> THEN <<"/">> ELSE b

\* the traits of StandaloneProxyServer that a @default method is registered for
DefaultGenerators == {"prefix", "address", "port", "command"}
\* the traits a @validate method is registered for
Validators == {"prefix"}

\* _default_prefix
_default_prefix(environ_prefix) ==
    RemoveSlash(IF environ_prefix = <<Unset>> THEN <<"/">> ELSE environ_prefix)

\* _validate_prefix
_validate_prefix(value) == RemoveSlash(value)

\* the value of the Unicode trait base_url: the configured value, through the
\* validator registered for it, or else its default
base_url_trait(configured, environ_prefix) ==
    IF configured # <<Unset>>
    THEN IF "base_url" \in Validators THEN _validate_prefix(configured) ELSE configured
    ELSE IF "base_url" \in DefaultGenerators THEN _default_prefix(environ_prefix)
    ELSE <<>>

\* tornado's rule for a pattern: it must match the whole path
Anchored(pattern) ==
    IF pattern # <<>> /\ pattern[Len(pattern)] = "$" THEN pattern
    ELSE pattern \o <<"$">>

\* re.match of pattern p from its token i on path s from its character j
RECURSIVE MatchFrom(_, _, _, _)
MatchFrom(p, i, s, j) ==
    IF i > Len(p) THEN TRUE
    ELSE IF p[i] = "^" THEN j = 1 /\ MatchFrom(p, i + 1, s, j)
    ELSE IF p[i] = "$" THEN j = Len(s) + 1 /\ MatchFrom(p, i + 1, s, j)
    ELSE IF p[i] = "(.*)" THEN \E k \in j..(Len(s) + 1) : MatchFrom(p, i + 1, s, k)
    ELSE IF p[i] = "\\" THEN
        /\ i < Len(p) /\ j <= Len(s) /\ s[j] = p[i + 1]
        /\ MatchFrom(p, i + 2, s, j + 1)
    ELSE IF p[i] = "." THEN j <= Len(s) /\ MatchFrom(p, i + 1, s, j + 1)
    ELSE j <= Len(s) /\ s[j] = p[i] /\ MatchFrom(p, i + 1, s, j + 1)

Matches(pattern, path) == MatchFrom(Anchored(pattern), 1, path, 1)

Route(pattern, handler, url) == [pattern |-> pattern, handler |-> handler, url |-> url]

\* _create_app: the routes of the standalone application
_create_app(self_base_url) ==
    LET escaped == re_escape(self_base_url)
    IN  << Route(<<"^">> \o escaped \o <<"$">>, "RedirectHandler", escaped \o <<"/">>),
           Route(<<"^">> \o escaped \o <<"/", "oauth_callback">>,
                 "HubOAuthCallbackHandler", <<>>),
           Route(<<"^">> \o escaped \o <<"/", "(.*)">>, "StandaloneHubProxyHandler", <<>>) >>

\* make_handlers: two routes per server process
RECURSIVE make_handlers(_, _)
make_handlers(nb_base_url, server_processes) ==
    IF server_processes = <<>> THEN <<>>
    ELSE LET sp == Head(server_processes)
         IN  << Route(ujoin(<<nb_base_url, sp.name, <<"(.*)">>>>), "_Proxy", <<>>),
                Route(ujoin(<<nb_base_url, sp.name>>), "AddSlashHandler", <<>>) >>
                 \o make_handlers(nb_base_url, Tail(server_processes))

\* the first route of the table that matches the path, or 0
FirstMatch(table, path) ==
    LET hits == {i \in 1..Len(table) : Matches(table[i].pattern, path)}
    IN  IF hits = {} THEN 0 ELSE CHOOSE i \in hits : \A k \in hits : i <= k

NoResponse == [path |-> <<>>, handler |-> "", location |-> <<>>]

\* AddSlashHandler: where it redirects a request for path
AddSlashHandler(path) == path \o <<"/">>

\* web.RedirectHandler(url=url): where it redirects
RedirectHandler(url) == Format(url, <<>>).s

\* the answer to a request for path: the handler that takes it and, for a
\* redirect, where it sends the client
Dispatch(table, path) ==
    LET i == FirstMatch(table, path)
    IN  IF i = 0 THEN [path |-> path, handler |-> "404", location |-> <<>>]
        ELSE IF table[i].handler = "RedirectHandler"
        THEN [path |-> path, handler |-> "RedirectHandler",
              location |-> RedirectHandler(table[i].url)]
        ELSE IF table[i].handler = "AddSlashHandler"
        THEN [path |-> path, handler |-> "AddSlashHandler", location |-> AddSlashHandler(path)]
        ELSE [path |-> path, handler |-> table[i].handler, location |-> <<>>]

----------------------------------------------------------------------------
(* Requests to the proxy handler *)

RequestIds == <<"r1", "r2", "r3", "r4", "r5">>
Reqs == {RequestIds[i] : i \in 1..MaxRequests}

\* the services with a proxy route, each route registered with its own state={}
ServiceNames == {"a", "b"}

\* the handler class bound to the proxy route
HandlerClasses == {"proxy.StandaloneHubProxyHandler", "hub.StandaloneHubProxyHandler"}

NewRequest ==
    [pc |-> "new", method |-> "", target |-> "", current_user |-> "unchecked",
     reply |-> "", backend |-> {}, proc |-> 0, first |-> FALSE, observed |-> ""]

\* a state dict as registered: state={}
EmptyState == [status |-> "UNSTARTED", proc |-> 0]

\* a state dict made for each handler instance
StatePerRequest(r) == r

\* the state dict the handler of request r was initialized with: the one dict
\* evaluated when the route of the request's service was registered
StateOf(r) == requests[r].target

\* web.authenticated that calls the method whoever asks
authenticated_unchecked(current_user, method) == [call |-> TRUE, reply |-> ""]

\* web.authenticated: without a current user the method is not called; a GET
\* or HEAD is redirected to the login URL, anything else gets 403
authenticated(current_user, method) ==
    IF current_user = "none"
    THEN IF method \in {"GET", "HEAD"}
         THEN [call |-> FALSE, reply |-> "302 login"]
         ELSE [call |-> FALSE, reply |-> "403"]
    ELSE [call |-> TRUE, reply |-> ""]

----------------------------------------------------------------------------
(* The configurations the rendering is checked on *)

SeqsUpTo(S, n) == UNION {[1..k -> S] : k \in 0..n}

\* whole strings
TopStrs == {StrV(s) : s \in SeqsUpTo(Tok, MaxStrLen)}

\* what lists and mappings are made of
Elems ==
    {StrV(<<"{", "port", "}">>), StrV(<<"{", "{", "port", "}", "}">>),
     StrV(<<"{", "a", "}">>), StrV(<<"PORT">>), IntV, NoneV, FnV("f_list")}

Lists(E) == {ListV(xs) : xs \in SeqsUpTo(E, MaxItems)}

Distinct(ks) == \A i, j \in 1..Len(ks) : i # j => ks[i] # ks[j]

Dicts(E) ==
    UNION {{DictV(ks, vs) : ks \in {q \in [1..n -> E] : Distinct(q)}, vs \in [1..n -> E]}
           : n \in 0..MaxEntries}

RECURSIVE Wrapped(_, _)
Wrapped(V, d) ==
    IF d = 0 THEN V
    ELSE LET W == Wrapped(V, d - 1)
         IN  W \cup {ListV(<<v>>) : v \in W}
               \cup {DictV(<<StrV(<<"a">>)>>, <<v>>) : v \in W}

Values ==
    TopStrs \cup {IntV, NoneV} \cup {FnV(f) : f \in FnIds}
        \cup Wrapped(Lists(Elems) \cup Dicts(Elems), MaxDepth)

\* the servers entries: a command, and an environment or none
Configs ==
    {[command |-> v] : v \in Values}
        \cup {[command |-> ListV(<<StrV(<<"a">>)>>), environment |-> v] : v \in Values}

Ports == {80, 8081}

----------------------------------------------------------------------------
(* The parts of the program a run does not exercise stay as constructed *)

\* no service is configured
IdleT ==
    /\ server_process = make_server_process("a", [command |-> ListV(<<>>)])
    /\ port = 0
    /\ cmd_out = NotRun
    /\ env_out = NotRun

\* nothing of the TLS setup is looked at
IdleS ==
    /\ ssl_environ = [v \in SSLVars |-> Unset]
    /\ ssl_out = [i \in SSLImpls |-> SSLNotRun]
    /\ http_client = [i \in SSLImpls |-> Unconfigured]
    /\ http_server = NotListening

\* no application is set up
IdleR ==
    /\ app = [kind |-> "none", stage |-> "new", configured |-> <<Unset>>,
              environ_prefix |-> <<Unset>>, names |-> <<>>]
    /\ base_url = <<>>
    /\ handlers = <<>>
    /\ response = NoResponse

\* no request is made
IdleP ==
    /\ settings = [handler |-> "proxy.StandaloneHubProxyHandler", skip_authentication |-> FALSE]
    /\ requests = [r \in {} |-> NewRequest]
    /\ state = [s \in {} |-> EmptyState]
    /\ procs = <<>>
    /\ resolved = {}

----------------------------------------------------------------------------
(* Rendering the templates of one service *)

StartT ==
    /\ server_process \in {make_server_process("a", c) : c \in Configs}
    /\ port \in Ports
    /\ cmd_out = NotRun
    /\ env_out = NotRun

InitT == StartT /\ IdleS /\ IdleR /\ IdleP

GetCmd ==
    /\ cmd_out = NotRun
    /\ cmd_out' = get_cmd(server_process.command, port)
    /\ UNCHANGED <<server_process, port, env_out, varsS, varsR, varsP>>

GetEnv ==
    /\ env_out = NotRun
    /\ env_out' = get_env(server_process.environment, port)
    /\ UNCHANGED <<server_process, port, cmd_out, varsS, varsR, varsP>>

NextT == GetCmd \/ GetEnv

SpecTemplate == InitT /\ [][NextT]_vars

----------------------------------------------------------------------------
(* Running the TLS setups *)

StartS ==
    /\ ssl_environ \in [SSLVars -> SSLFiles]
    /\ ssl_out = [i \in SSLImpls |-> SSLNotRun]
    /\ http_client = [i \in SSLImpls |-> Unconfigured]
    /\ http_server = NotListening

InitS == StartS /\ IdleT /\ IdleR /\ IdleP

\* hub.configure_ssl()
HubConfigureSSL ==
    /\ ~ssl_out["hub"].ran
    /\ LET out == configure_ssl(ssl_environ, http_client["hub"])
       IN  /\ ssl_out' = [ssl_out EXCEPT !["hub"] = out]
           /\ http_client' = [http_client EXCEPT !["hub"] = out.client]
    /\ UNCHANGED <<ssl_environ, http_server, varsT, varsR, varsP>>

\* start(): ssl_options = self._configure_ssl()
StandaloneConfigureSSL ==
    /\ ~ssl_out["standalone"].ran
    /\ LET out == _configure_ssl(ssl_environ, http_client["standalone"])
       IN  /\ ssl_out' = [ssl_out EXCEPT !["standalone"] = out]
           /\ http_client' = [http_client EXCEPT !["standalone"] = out.client]
    /\ UNCHANGED <<ssl_environ, http_server, varsT, varsR, varsP>>

\* start(): httpserver.HTTPServer(app, ssl_options=ssl_options, xheaders=True)
StandaloneListen ==
    /\ ssl_out["standalone"].ran
    /\ http_server = NotListening
    /\ http_server' = ssl_out["standalone"].ret
    /\ UNCHANGED <<ssl_environ, ssl_out, http_client, varsT, varsR, varsP>>

NextS == HubConfigureSSL \/ StandaloneConfigureSSL \/ StandaloneListen

SpecSSL == InitS /\ [][NextS]_vars

----------------------------------------------------------------------------
(* Building the route tables and dispatching requests *)

\* URL paths: they start with "/"
Paths(n) == {s \in SeqsUpTo(PathChars, n) : s # <<>> /\ Head(s) = "/"}

\* service names: no "/" in them
Names == SeqsUpTo(PathChars \ {"/"}, MaxNameLen) \ {<<>>}

\* the standalone server: base_url configured or not, the hub's prefix set or not
StandaloneApps ==
    {[kind |-> "standalone", stage |-> "new", configured |-> <<Unset>>,
      environ_prefix |-> e, names |-> <<>>] : e \in Paths(MaxPathLen) \cup {<<Unset>>}}
    \cup
    {[kind |-> "standalone", stage |-> "new", configured |-> c,
      environ_prefix |-> e, names |-> <<>>]
        : c \in Paths(MaxPathLen), e \in {<<Unset>>, <<"/", "a", "/">>}}

\* the notebook server: its base_url and one configured service
NotebookApps ==
    {[kind |-> "notebook", stage |-> "new", configured |-> b,
      environ_prefix |-> <<Unset>>, names |-> <<n>>]
        : b \in {<<"/">>, <<"/", "a", "/">>}, n \in Names}

StartR ==
    /\ app \in StandaloneApps \cup NotebookApps
    /\ base_url = <<>>
    /\ handlers = <<>>
    /\ response = NoResponse

InitR == StartR /\ IdleT /\ IdleS /\ IdleP

\* the application reads its configuration: the base_url trait of the
\* standalone server, the base_url setting of the notebook server
LoadConfig ==
    /\ app.stage = "new"
    /\ base_url' = IF app.kind = "standalone"
                   THEN base_url_trait(app.configured, app.environ_prefix)
                   ELSE app.configured
    /\ app' = [app EXCEPT !.stage = "configured"]
    /\ UNCHANGED <<handlers, response, varsT, varsS, varsP>>

\* start(): app = self._create_app()
CreateApp ==
    /\ app.kind = "standalone" /\ app.stage = "configured"
    /\ handlers' = _create_app(base_url)
    /\ app' = [app EXCEPT !.stage = "created"]
    /\ UNCHANGED <<base_url, response, varsT, varsS, varsP>>

\* the notebook extension registers make_handlers(base_url, server_processes)
MakeHandlers ==
    /\ app.kind = "notebook" /\ app.stage = "configured"
    /\ handlers' = make_handlers(base_url,
                       [i \in 1..Len(app.names) |->
                           make_server_process(app.names[i], [command |-> ListV(<<>>)])])
    /\ app' = [app EXCEPT !.stage = "created"]
    /\ UNCHANGED <<base_url, response, varsT, varsS, varsP>>

\* the prefixes the application serves
Prefixes ==
    IF app.kind = "standalone" THEN {base_url}
    ELSE {ujoin(<<base_url, app.names[i]>>) : i \in 1..Len(app.names)}

\* what follows the prefix and "/" in the requests made
Remainders == {<<>>, <<"a">>, <<"a", "/", "a">>, <<"oauth_callback">>}

\* a request arrives and the first matching route answers it
Request ==
    /\ app.stage = "created"
    /\ \E P \in Prefixes :
         \E path \in {P} \cup {P \o <<"/">> \o r : r \in Remainders} :
            response' = Dispatch(handlers, path)
    /\ UNCHANGED <<app, base_url, handlers, varsT, varsS, varsP>>

NextR == LoadConfig \/ CreateApp \/ MakeHandlers \/ Request

SpecRoutes == InitR /\ [][NextR]_vars

----------------------------------------------------------------------------
(* Handling requests: authentication, then the supervised backend *)

StartP ==
    /\ settings \in
          {[handler |-> "proxy.StandaloneHubProxyHandler", skip_authentication |-> b]
               : b \in BOOLEAN}
          \cup {[handler |-> "hub.StandaloneHubProxyHandler", skip_authentication |-> FALSE]}
    /\ requests = [r \in Reqs |-> NewRequest]
    /\ state = [s \in ServiceNames \cup Reqs |-> EmptyState]
    /\ procs = <<>>
    /\ resolved = {}

InitP == StartP /\ IdleT /\ IdleS /\ IdleR

\* a request is routed to the handler (prepare() and check_xsrf_cookie() do
\* nothing) and proxy(port, path) of the handler class is called: proxy.py goes
\* to the parent's proxy when skip_authentication is set and to oauth_proxy
\* otherwise; hub.py's proxy is itself wrapped in web.authenticated
Proxy(r) ==
    /\ requests[r].pc = "new"
    /\ \E m \in {"GET", "POST"}, n \in ServiceNames :
          requests' = [requests EXCEPT
              ![r].method = m,
              ![r].target = n,
              ![r].pc = IF settings.handler = "proxy.StandaloneHubProxyHandler"
                           /\ settings.skip_authentication
                        THEN "super_proxy" ELSE "authenticated"]
    /\ UNCHANGED <<settings, state, procs, resolved, varsT, varsS, varsR>>

\* the web.authenticated wrapper of oauth_proxy (proxy.py) or proxy (hub.py):
\* the hub says who the user is, or that there is none
Authenticated(r) ==
    /\ requests[r].pc = "authenticated"
    /\ \E u \in {"none", "user"} :
          LET a == authenticated(u, requests[r].method)
          IN  requests' = [requests EXCEPT
                  ![r].current_user = u,
                  ![r].pc = IF a.call THEN "super_proxy" ELSE "done",
                  ![r].reply = a.reply]
    /\ UNCHANGED <<settings, state, procs, resolved, varsT, varsS, varsR>>

\* super().proxy(port, path): ensure_started on the state dict of the handler
SuperProxy(r) ==
    /\ requests[r].pc = "super_proxy"
    /\ LET s == StateOf(r)
           n == requests[r].target
       IN  IF state[s].status = "READY" THEN
               /\ requests' = [requests EXCEPT ![r].pc = "forward",
                                  ![r].proc = state[s].proc,
                                  ![r].first = n \notin resolved,
                                  ![r].observed = "READY"]
               /\ UNCHANGED <<state, procs>>
           ELSE IF state[s].status = "STARTING" THEN
               /\ requests' = [requests EXCEPT ![r].pc = "waiting",
                                  ![r].proc = state[s].proc,
                                  ![r].first = n \notin resolved]
               /\ UNCHANGED <<state, procs>>
           ELSE
               /\ procs' = Append(procs, [service |-> n, slot |-> s, alive |-> TRUE,
                                          outcome |-> "STARTING",
                                          first |-> n \notin resolved])
               /\ state' = [state EXCEPT ![s] = [status |-> "STARTING",
                                                 proc |-> Len(procs) + 1]]
               /\ requests' = [requests EXCEPT ![r].pc = "waiting",
                                  ![r].proc = Len(procs) + 1,
                                  ![r].first = n \notin resolved,
                                  ![r].backend = @ \cup {"start"}]
    /\ UNCHANGED <<settings, resolved, varsT, varsS, varsR>>

\* the start in flight resolves: the backend accepts connections, or the
\* start fails or times out and the process is killed
StartResolves(p) ==
    /\ p \in 1..Len(procs)
    /\ procs[p].outcome = "STARTING"
    /\ \E ok \in BOOLEAN :
          /\ procs' = [procs EXCEPT ![p].outcome = IF ok THEN "READY" ELSE "FAILED",
                                    ![p].alive = ok]
          /\ state' = [state EXCEPT ![procs[p].slot].status =
                                        IF ok THEN "READY" ELSE "FAILED"]
    /\ resolved' = resolved \cup {procs[p].service}
    /\ UNCHANGED <<settings, requests, varsT, varsS, varsR>>

\* a request suspended on a start resumes with that start's outcome
Resume(r) ==
    /\ requests[r].pc = "waiting"
    /\ procs[requests[r].proc].outcome # "STARTING"
    /\ requests' =
          IF procs[requests[r].proc].outcome = "READY"
          THEN [requests EXCEPT ![r].pc = "forward", ![r].observed = "READY"]
          ELSE [requests EXCEPT ![r].pc = "done", ![r].observed = "BackendStartError",
                                ![r].reply = "500"]
    /\ UNCHANGED <<settings, state, procs, resolved, varsT, varsS, varsR>>

\* the request is forwarded to the backend
Forward(r) ==
    /\ requests[r].pc = "forward"
    /\ requests' = [requests EXCEPT
          ![r].pc = "done",
          ![r].backend = @ \cup {"contact"},
          ![r].reply = IF procs[requests[r].proc].alive THEN "200" ELSE "502"]
    /\ UNCHANGED <<settings, state, procs, resolved, varsT, varsS, varsR>>

\* the backend process exits while READY
Crash(p) ==
    /\ p \in 1..Len(procs)
    /\ procs[p].alive /\ procs[p].outcome = "READY"
    /\ procs' = [procs EXCEPT ![p].alive = FALSE]
    /\ state' = [state EXCEPT ![procs[p].slot].status = "CRASHED"]
    /\ UNCHANGED <<settings, requests, resolved, varsT, varsS, varsR>>

NextP ==
    \/ \E r \in Reqs : Proxy(r)
    \/ \E r \in Reqs : Authenticated(r)
    \/ \E r \in Reqs : SuperProxy(r)
    \/ \E p \in 1..MaxRequests : StartResolves(p)
    \/ \E r \in Reqs : Resume(r)
    \/ \E r \in Reqs : Forward(r)
    \/ \E p \in 1..MaxRequests : Crash(p)

SpecProxy == InitP /\ [][NextP]_vars

----------------------------------------------------------------------------
(* What the templates and their renderings contain *)

RECURSIVE Concat(_, _)
Concat(ss, n) == IF n = 0 THEN <<>> ELSE Concat(ss, n - 1) \o ss[n]

\* the strings, numbers, None and callables of a value, in the order
\* _render_template visits them
RECURSIVE Leaves(_)
Leaves(v) ==
    IF v.t = "list" THEN
        Concat([i \in 1..Len(v.items) |-> Leaves(v.items[i])], Len(v.items))
    ELSE IF v.t = "dict" THEN
        Concat([i \in 1..Len(v.keys) |-> Leaves(v.keys[i]) \o Leaves(v.items[i])],
               Len(v.keys))
    ELSE <<v>>

LeafSet(v) == {Leaves(v)[i] : i \in 1..Len(Leaves(v))}

ContainsFn(v) == \E l \in LeafSet(v) : l.t = "fn"
ContainsUnsupported(v) == \E l \in LeafSet(v) : l.t \in {"int", "none"}
OnlyStrings(v) == \A l \in LeafSet(v) : l.t = "str"

\* the string s holds a {port} token
HasPortToken(s) ==
    \E i \in 1..(Len(s) - 2) : s[i] = "{" /\ s[i + 1] = "port" /\ s[i + 2] = "}"

\* the string s holds the text w
HasText(s, w) ==
    \E i \in 0..(Len(s) - Len(w)) : SubSeq(s, i + 1, i + Len(w)) = w

ContainsPortToken(v) == \E l \in LeafSet(v) : l.t = "str" /\ HasPortToken(l.s)
ContainsText(v, w) == \E l \in LeafSet(v) : l.t = "str" /\ HasText(l.s, w)

Rendered(out) == out.t \in {"str", "list", "dict"}

\* a literal structure: strings, lists and mappings of strings, nothing else
IsLiteral(out) == Rendered(out) /\ OnlyStrings(out)

\* what rendering one leaf gives
LeafResult(l, p) == IF l.t = "str" THEN Format(l.s, process_args(p)) ELSE ErrUnrecognized

\* the error of the first leaf, in visiting order, that cannot be rendered
FirstFailure(v, p) ==
    FirstErr([i \in 1..Len(Leaves(v)) |-> LeafResult(Leaves(v)[i], p)])

\* every string of v is a template str.format accepts
StringsFormat(v, p) ==
    \A l \in LeafSet(v) : l.t = "str" => ~IsErr(Format(l.s, process_args(p)))

\* the two templates of the service with what each rendered to
Renderings ==
    {<<server_process.command, cmd_out>>, <<server_process.environment, env_out>>}

----------------------------------------------------------------------------
(* C3: every {port} token of a template of strings is replaced by the     *)
(* decimal string of the port and no {port} token is left in the result.  *)
C3_PortTokensReplaced ==
    \A r \in Renderings :
        (Rendered(r[2]) /\ OnlyStrings(r[1]) /\ ContainsPortToken(r[1]))
            => (ContainsText(r[2], Dec(port)) /\ ~ContainsPortToken(r[2]))

(* C4 as claimed: a value holding callables at any depth, each of which   *)
(* can be called with the parameters and returns something renderable,    *)
(* renders to a literal structure with no callable left in it.            *)
RECURSIVE Resolvable(_, _)
Resolvable(v, p) ==
    IF v.t = "str" THEN ~IsErr(Format(v.s, process_args(p)))
    ELSE IF v.t = "list" THEN \A i \in 1..Len(v.items) : Resolvable(v.items[i], p)
    ELSE IF v.t = "dict" THEN
        \A i \in 1..Len(v.keys) : Resolvable(v.keys[i], p) /\ Resolvable(v.items[i], p)
    ELSE IF v.t = "fn" THEN
        /\ ~IsErr(Call(v, process_args(p)))
        /\ Resolvable(Call(v, process_args(p)), p)
    ELSE FALSE

C4_CallablesResolvedAtAnyDepth ==
    \A r \in Renderings :
        (r[2] # NotRun /\ ContainsFn(r[1]) /\ Resolvable(r[1], port)) => IsLiteral(r[2])

(* C4 amended: a command or environment that is itself callable is called *)
(* with the parameters by name and what it returns is rendered; a         *)
(* callable anywhere else (inside a list or mapping, or returned by the   *)
(* callable) is not called and rendering ends in an error; a result that  *)
(* is returned holds no callable.                                         *)
C4_TopLevelCallableOnly ==
    \A r \in Renderings :
        r[2] # NotRun =>
            LET ret == Call(r[1], process_args(port))
            IN  /\ (callable(r[1]) /\ ~IsErr(ret) /\ OnlyStrings(ret)
                        /\ StringsFormat(ret, port))
                       => (IsLiteral(r[2]) /\ r[2].t = ret.t
                             /\ (ContainsPortToken(ret) => ContainsText(r[2], Dec(port))))
                /\ (callable(r[1]) /\ ~IsErr(ret) /\ ContainsFn(ret)) => IsErr(r[2])
                /\ (callable(r[1]) /\ IsErr(ret)) => r[2] = ret
                /\ (~callable(r[1]) /\ ContainsFn(r[1])) => IsErr(r[2])
                /\ Rendered(r[2]) => ~ContainsFn(r[2])

C4_Witness ==
    /\ server_process.command = FnV("f_tmpl")
    /\ port = 8081
    /\ cmd_out = ListV(<<StrV(<<"a", "8", "0", "8", "1">>)>>)

(* C5 as claimed: a value holding a number or None anywhere ends in       *)
(* ValueError 'Value of unrecognized type' and in no other outcome.       *)
C5_OnlyUnrecognizedType ==
    \A r \in Renderings :
        (r[2] # NotRun /\ ContainsUnsupported(r[1])) => r[2] = ErrUnrecognized

(* C5 amended: a value holding a number or None anywhere ends in an error *)
(* and never in a rendered structure; the error is that of the first leaf *)
(* in visiting order that cannot be rendered: ValueError 'Value of        *)
(* unrecognized type', unless a string visited earlier fails in           *)
(* str.format first.                                                      *)
C5_FirstFailureWins ==
    \A r \in Renderings :
        (r[2] # NotRun /\ ContainsUnsupported(r[1]))
            => /\ IsErr(r[2])
               /\ r[2] = FirstFailure(r[1], port)
               /\ StringsFormat(r[1], port) => r[2] = ErrUnrecognized

C5_Witness ==
    /\ server_process.command = ListV(<<StrV(<<"{", "port", "}">>), IntV>>)
    /\ cmd_out = ErrUnrecognized

(* C6: when the configured environment does not define PORT (or no        *)
(* environment is configured) get_env gives PORT = the assigned port;     *)
(* a configured PORT is the one produced.                                 *)
DefinesPORT(env) == env.t = "dict" /\ \E i \in 1..Len(env.keys) : env.keys[i] = StrV(<<"PORT">>)

Entry(d, k) == d.items[CHOOSE i \in 1..Len(d.keys) : d.keys[i] = k]

C6_PortInEnvironment ==
    (env_out.t = "dict" /\ server_process.environment.t = "dict")
        => /\ DefinesPORT(env_out)
           /\ ~DefinesPORT(server_process.environment)
                  => Entry(env_out, StrV(<<"PORT">>)) = StrV(Dec(port))
           /\ DefinesPORT(server_process.environment)
                  => Entry(env_out, StrV(<<"PORT">>))
                        = RenderTemplate(Entry(server_process.environment, StrV(<<"PORT">>)),
                                         process_args(port))

----------------------------------------------------------------------------
(* C8: with none of the three TLS files set, each TLS setup warns,        *)
(* returns None, builds nothing, leaves the HTTP client as it was, and    *)
(* the standalone server is started without ssl_options.                  *)
NoFileSet == \A v \in SSLVars : ssl_environ[v] = Unset

C8_NoFilesDisablesTLS ==
    NoFileSet =>
        /\ \A i \in SSLImpls :
               ssl_out[i].ran =>
                   /\ ssl_out[i].warned
                   /\ ssl_out[i].ret = NoSSL
                   /\ ~ssl_out[i].built
                   /\ http_client[i] = Unconfigured
        /\ http_server \in {NotListening, NoSSL}

C8_Witness ==
    /\ NoFileSet
    /\ \A i \in SSLImpls : ssl_out[i].ran
    /\ http_server = NoSSL

(* C10: for every combination of the three variables being set or unset,  *)
(* both TLS setups decide alike, and neither builds an SSL context while  *)
(* one of the three files is unset.                                       *)
C10_SameDecision ==
    ((\A i \in SSLImpls : ssl_out[i].ran) /\ (\A v \in SSLVars : ssl_environ[v] # "")) =>
        /\ (ssl_out["hub"].ret = NoSSL) <=> (ssl_out["standalone"].ret = NoSSL)
        /\ ssl_out["hub"].built <=> ssl_out["standalone"].built
        /\ (http_client["hub"] = Unconfigured) <=> (http_client["standalone"] = Unconfigured)
        /\ \A i \in SSLImpls :
               ssl_out[i].built => \A v \in SSLVars : ssl_environ[v] # Unset

----------------------------------------------------------------------------
(* C7: for every service prefix P the table has a route bound to the      *)
(* proxy handler that matches P, "/" and any remainder, and the bare P is *)
(* answered by a redirect to exactly P followed by "/".                   *)
ProxyHandlers == {"StandaloneHubProxyHandler", "_Proxy"}

C7_PrefixRoutes ==
    app.stage = "created" =>
        \A P \in Prefixes :
            /\ \A r \in Remainders :
                   \E i \in 1..Len(handlers) :
                       /\ handlers[i].handler \in ProxyHandlers
                       /\ Matches(handlers[i].pattern, P \o <<"/">> \o r)
            /\ Dispatch(handlers, P).handler \in {"RedirectHandler", "AddSlashHandler"}
            /\ Dispatch(handlers, P).location = P \o <<"/">>

(* C9: the base_url of the standalone server is the configured value, or  *)
(* else JUPYTERHUB_SERVICE_PREFIX ("/" when unset), with one trailing "/" *)
(* removed.                                                               *)
C9_BaseUrlFromPrefix ==
    (app.kind = "standalone" /\ app.stage # "new") =>
        base_url = IF app.configured # <<Unset>> THEN RemoveSlash(app.configured)
                   ELSE IF app.environ_prefix # <<Unset>> THEN RemoveSlash(app.environ_prefix)
                   ELSE RemoveSlash(<<"/">>)

----------------------------------------------------------------------------
(* C1: with authentication on, the parent's proxy step runs for a request *)
(* only after the authentication check allowed it; a denied request ends  *)
(* in an authentication-required response and never starts or contacts    *)
(* the backend.                                                           *)
AuthenticationOn ==
    settings.handler = "hub.StandaloneHubProxyHandler" \/ ~settings.skip_authentication

C1_NoBackendBeforeAuthentication ==
    AuthenticationOn =>
        \A r \in DOMAIN requests :
            /\ (requests[r].pc \in {"super_proxy", "waiting", "forward"}
                    \/ requests[r].backend # {} \/ requests[r].proc # 0)
                   => requests[r].current_user = "user"
            /\ requests[r].current_user = "none"
                   => /\ requests[r].pc = "done"
                      /\ requests[r].reply \in {"302 login", "403"}
                      /\ requests[r].backend = {}

C1_Witness ==
    /\ AuthenticationOn
    /\ \E r \in DOMAIN requests :
          requests[r].current_user = "none" /\ requests[r].reply = "403"
    /\ \E r \in DOMAIN requests :
          requests[r].current_user = "user" /\ "contact" \in requests[r].backend

(* C2: the first requests to a service that come before any start of it   *)
(* has resolved cause exactly one spawn and all observe the outcome of    *)
(* that one start; at no time are two processes of one service alive.     *)
AliveOf(n) == {p \in 1..Len(procs) : procs[p].service = n /\ procs[p].alive}

FirstRequests(n) ==
    {r \in DOMAIN requests : requests[r].target = n /\ requests[r].first
                                /\ requests[r].proc # 0}

C2_OneSpawnOneOutcome ==
    \A n \in ServiceNames :
        /\ Cardinality(AliveOf(n)) <= 1
        /\ FirstRequests(n) # {} =>
               Cardinality({p \in 1..Len(procs) : procs[p].service = n /\ procs[p].first}) = 1
        /\ \A r1, r2 \in FirstRequests(n) :
               /\ requests[r1].proc = requests[r2].proc
               /\ (requests[r1].observed # "" /\ requests[r2].observed # "")
                      => requests[r1].observed = requests[r2].observed

C2_Witness ==
    \E n \in ServiceNames :
        /\ Cardinality(FirstRequests(n)) >= 2
        /\ \A r \in FirstRequests(n) : requests[r].observed = "BackendStartError"

====
